---- MODULE Spec2Model ----
(***************************************************************************)
(* A model of git-spice's branch-state store (internal/state/store.go) and *)
(* of the `branch submit` command (branch_submit.go).                      *)
(*                                                                         *)
(* The store is a tree of keys kept by a storage backend.  Store.Update    *)
(* turns a request into backend sets and deletes.  `branch submit` walks   *)
(* one branch through lookup, remote search, push and forge calls.         *)
(***************************************************************************)
EXTENDS Integers, Sequences, FiniteSets, TLC

VARIABLES
    tree,       \* the backend's current snapshot: key -> value
    trunk,      \* Store.trunk, cached in the Store object when it is opened
    last,       \* digest of the last Store.Update call (request shape, error)
    remoteRef,  \* refs/heads/<name> on the remote: name -> hash, 0 if none
    trackingRef,\* the local remote-tracking ref <remote>/<name>: name -> hash
    forkPoint,  \* fork point of each branch with its base: name -> hash
    changes,    \* the forge's change requests: id -> change
    pc,         \* position of the running `branch submit`
    cmd,        \* its flags (branchSubmitCmd)
    loc,        \* its local variables
    ret,        \* what run() returns: the error, or nil
    events,     \* the side effects of this invocation, in order
    HEAD,       \* the local repository's HEAD: a branch, or a detached commit
    localRef,   \* the local branches: name -> tip commit, 0 if none
    commits,    \* the commits made by the commands, oldest first
    staged      \* does the index differ from HEAD (repo.DiffIndex)

storeVars == <<tree, trunk, last>>
gitVars == <<remoteRef, trackingRef, forkPoint>>
runVars == <<pc, cmd, loc, ret, events>>
repoVars == <<HEAD, localRef, commits, staged>>
vars == <<tree, trunk, last, remoteRef, trackingRef, forkPoint, changes,
          pc, cmd, loc, ret, events, HEAD, localRef, commits, staged>>

----------------------------------------------------------------------------
(* Bounds of the model.                                                    *)

\* Longest Upserts list of a generated Store.Update request.
MaxUpserts == 2

\* Number of change requests the forge can hold.
MaxCR == 2

\* Number of commits the local repository can hold.
MaxCommits == 3

----------------------------------------------------------------------------
(* Names, keys and values.                                                 *)

MainName == "main"

\* Branch names a user may pass; "main" is the trunk of the initial store.
BranchNames == {"a", "b"}
AllNames == BranchNames \cup {MainName, "repo"}

\* Hashes are small positive numbers; 0 stands for the empty git.Hash "".
NoHash == 0

\* A change reference (store.go: PR number); 0 is "not associated".
NoChange == 0
\* In an upsert: leave the field alone (PR == nil).
Keep == -1

_repoJSON == [dir |-> "", name |-> "repo"]
_branchesDir == "branches"
_preparedDir == "prepared"

\* path.Join(_branchesDir, name)
branchJSON(name) == [dir |-> _branchesDir, name |-> name]
preparedJSON(name) == [dir |-> _preparedDir, name |-> name]
\* A path used as given, without a directory in front.
rawKey(path) == [dir |-> "", name |-> path]

Keys == [dir : {"", _branchesDir, _preparedDir}, name : AllNames \cup {""}]

Absent == [kind |-> "absent", trunk |-> "", base |-> "", hash |-> NoHash,
           upstream |-> "", change |-> NoChange]
\* JSON null: what a zero-valued setRequest (Val == nil) encodes to.
NullVal == [Absent EXCEPT !.kind = "null"]
repoInfo(t) == [Absent EXCEPT !.kind = "repo", !.trunk = t]
branchState(base, hash, upstream, change) ==
    [kind |-> "branch", trunk |-> "", base |-> base, hash |-> hash,
     upstream |-> upstream, change |-> change]
PreparedVal == [Absent EXCEPT !.kind = "prepared"]

\* The zero value of setRequest: Key "", Val nil.
ZeroSet == [key |-> rawKey(""), val |-> NullVal]

EmptyTree == [k \in Keys |-> Absent]

----------------------------------------------------------------------------
(* The storage backend: atomic application of sets and deletes.            *)

RECURSIVE ApplySets(_, _)
ApplySets(t, sets) ==
    IF sets = <<>> THEN t
    ELSE ApplySets([t EXCEPT ![Head(sets).key] = Head(sets).val], Tail(sets))

RECURSIVE ApplyDels(_, _)
ApplyDels(t, dels) ==
    IF dels = <<>> THEN t
    ELSE ApplyDels([t EXCEPT ![Head(dels)] = Absent], Tail(dels))

\* storageBackend.Update: one new snapshot from the current one.
BackendUpdate(t, sets, dels) == ApplyDels(ApplySets(t, sets), dels)

----------------------------------------------------------------------------
(* Store.Lookup and Store.Update.                                          *)

Trunk == trunk

\* Store.Lookup: ErrNotExist unless the key holds a branch state.
Lookup(t, name) ==
    LET v == t[branchJSON(name)]
    IN  IF v.kind = "branch"
        THEN [err |-> "", base |-> v.base, hash |-> v.hash,
              upstream |-> v.upstream, change |-> v.change]
        ELSE [err |-> "ErrNotExist", base |-> "", hash |-> NoHash,
              upstream |-> "", change |-> NoChange]

\* The upstream name an upsert leaves in the record: omitted keeps the prior.
MergeUpstream(prev, u) ==
    IF u.upstream # "" THEN u.upstream ELSE prev.upstream

MergeUpsertOverwritePR(t, u) ==
    LET prev == Lookup(t, u.name)
    IN  branchState(
            IF u.base # "" THEN u.base ELSE prev.base,
            IF u.hash # NoHash THEN u.hash ELSE prev.hash,
            IF u.upstream # "" THEN u.upstream ELSE prev.upstream,
            IF u.change # Keep THEN u.change ELSE NoChange)

MergeUpsertDropHash(t, u) ==
    LET prev == Lookup(t, u.name)
    IN  branchState(
            IF u.base # "" THEN u.base ELSE prev.base,
            u.hash,
            IF u.upstream # "" THEN u.upstream ELSE prev.upstream,
            IF u.change # Keep THEN u.change ELSE prev.change)

\* Lines 218-241: start from the previous record (zero if none) and
\* overwrite the fields the request supplies.
MergeUpsert(t, u) ==
    LET prev == Lookup(t, u.name)
    IN  branchState(
            IF u.base # "" THEN u.base ELSE prev.base,
            IF u.hash # NoHash THEN u.hash ELSE prev.hash,
            MergeUpstream(prev, u),
            IF u.change # Keep THEN u.change ELSE prev.change)

UpsertErrorNoTrunkCheck(t, u) ==
    IF u.name = "" THEN "branch name is required"
    ELSE IF MergeUpsert(t, u).base = "" THEN "would have no base"
    ELSE ""

\* The checks of one loop iteration, in the order the loop makes them.
UpsertError(t, u) ==
    IF u.name = "" THEN "branch name is required"
    ELSE IF u.name = Trunk THEN "trunk branch is not managed by gs"
    ELSE IF MergeUpsert(t, u).base = "" THEN "would have no base"
    ELSE ""

\* Error of the first failing upsert, "" if none fails.
RECURSIVE FirstError(_, _)
FirstError(t, upserts) ==
    IF upserts = <<>> THEN ""
    ELSE IF UpsertError(t, Head(upserts)) # "" THEN UpsertError(t, Head(upserts))
    ELSE FirstError(t, Tail(upserts))

\* sets := make([]setRequest, len(req.Upserts)) followed by append:
\* len(Upserts) zero-valued entries, then one entry per upsert.
UpdateSets(t, upserts) ==
    [i \in 1..Len(upserts) |-> ZeroSet] \o
    [i \in 1..Len(upserts) |->
        [key |-> branchJSON(upserts[i].name), val |-> MergeUpsert(t, upserts[i])]]

\* Dels: req.Deletes, the names as given.
UpdateDels(deletes) == [i \in 1..Len(deletes) |-> rawKey(deletes[i])]

\* Store.Update up to the backend call: the error of an early return, or
\* the sets and deletes handed to the backend.
Update(t, req) ==
    LET e == FirstError(t, req.upserts)
    IN  IF e # ""
        THEN [err |-> e, sets |-> <<>>, dels |-> <<>>]
        ELSE [err |-> "", sets |-> UpdateSets(t, req.upserts),
              dels |-> UpdateDels(req.deletes)]

UpdateCallsPerKey(sets, dels) ==
    [i \in 1..Len(sets) |-> [sets |-> <<sets[i]>>, dels |-> <<>>]]
    \o [i \in 1..Len(dels) |-> [sets |-> <<>>, dels |-> <<dels[i]>>]]

\* Lines 253-257: the backend calls of one Store.Update: a single
\* s.b.Update with every set and every delete.
UpdateCalls(sets, dels) == << [sets |-> sets, dels |-> dels] >>

\* The outcomes of Store.Update on tree t: <<error, new tree>>.  The backend
\* call either commits the whole update or fails and commits nothing.
UpdateOutcomes(t, req) ==
    LET u == Update(t, req)
    IN  IF u.err # "" THEN {<<u.err, t>>}
        ELSE {<<"", BackendUpdate(t, u.sets, u.dels)>>, <<"update", t>>}

\* Store.List: the names under branches/.
List(t) == { n \in AllNames : t[branchJSON(n)].kind # "absent" }

\* InitStore, lines 57-95: <<error, new tree>>.  Clear and the Update that
\* puts the repo key are two backend calls, and each may fail.
InitStoreOutcomes(t, req) ==
    IF req.trunk = "" THEN {<<"trunk branch name is required", t>>}
    ELSE IF t[_repoJSON].kind = "repo" /\ ~req.force
    THEN {<<"ErrAlreadyInitialized", t>>}
    ELSE LET cleared == IF t[_repoJSON].kind = "repo" THEN EmptyTree ELSE t
         IN  (IF t[_repoJSON].kind = "repo" THEN {<<"clear store", t>>} ELSE {})
             \cup {<<"put repo state", cleared>>,
                   <<"", BackendUpdate(cleared,
                            << [key |-> _repoJSON, val |-> repoInfo(req.trunk)] >>,
                            <<>>)>>}

\* OpenStore, lines 101-120: the error it returns on the store t.
OpenStore(t) ==
    IF t[_repoJSON].kind = "repo" THEN "" ELSE "ErrUninitialized"

----------------------------------------------------------------------------
(* Requests generated for the store specification.                         *)

InitStoreRequests == [trunk : {"", MainName}, force : BOOLEAN]

Upsert(name, base, hash, change) ==
    [name |-> name, base |-> base, hash |-> hash, upstream |-> "",
     change |-> change]

UpsertFields ==
    { [base |-> MainName, hash |-> 1,      change |-> Keep],
      [base |-> "a",      hash |-> 2,      change |-> Keep],
      [base |-> "",       hash |-> NoHash, change |-> 1] }

\* Upserts of a and b with each choice of fields, one upsert named after
\* the trunk and one without a name.
UpsertRequests ==
    { [name |-> n, base |-> f.base, hash |-> f.hash, upstream |-> "",
       change |-> f.change] : n \in BranchNames, f \in UpsertFields }
    \cup { [name |-> n, base |-> "a", hash |-> 1, upstream |-> "",
            change |-> Keep] : n \in {MainName, ""} }

SeqsUpTo(S, n) == UNION { [1..k -> S] : k \in 0..n }

UpdateRequests ==
    [upserts : SeqsUpTo(UpsertRequests, MaxUpserts),
     deletes : {<<>>, <<"a">>, <<"repo">>}]

HasTrunkUpsert(req) == \E i \in 1..Len(req.upserts) : req.upserts[i].name = Trunk

NoLast == [op |-> "", trunkUpsert |-> FALSE, n |-> 0, force |-> FALSE,
           err |-> ""]

----------------------------------------------------------------------------
(* Git: refs of the remote, push, and the restack check.                   *)

\* repo.PeelToCommit(branch): every local branch tip is commit 2, the
\* child of commit 1.  Commit 3 is a commit of another actor.
Tip(b) == 2
OtherCommit(b) == 3

\* Is x an ancestor of (or equal to) y in the local history 1 <- 2?
IsAncestor(x, y) == x \in {1, 2} /\ y \in {1, 2} /\ x <= y

\* The remote accepts a push of `commit` onto a ref now at `cur`:
\* always under --force; under --force-with-lease name:expect only when
\* the ref is where the lease expects it; otherwise only a new ref or a
\* fast-forward.
PushAccepted(force, lease, cur, commit) ==
    \/ force
    \/ lease # NoHash /\ cur = lease
    \/ lease = NoHash /\ (cur = NoHash \/ IsAncestor(cur, commit))

\* The outcomes of repo.Push: an accepted push may still fail (I/O).
PushOutcomes(force, lease, cur, commit) ==
    IF PushAccepted(force, lease, cur, commit) THEN {TRUE, FALSE} ELSE {FALSE}

\* svc.VerifyRestacked: the fork point with the base is the recorded hash.
VerifyRestacked(t, name) ==
    /\ Lookup(t, name).err = ""
    /\ forkPoint[name] = Lookup(t, name).hash

----------------------------------------------------------------------------
(* The forge.                                                              *)

ChangeIDs == 1..MaxCR

\* A change request.  `by` is the branch whose submit created it through
\* SubmitChange, "" for a change opened by hand.
NoCR == [exists |-> FALSE, head |-> "", base |-> "", draft |-> FALSE, by |-> ""]
CR(head, base, draft, by) ==
    [exists |-> TRUE, head |-> head, base |-> base, draft |-> draft, by |-> by]

\* forge.FindChangesOptions.Limit of the search in run().
FindLimit == 3

\* The open changes whose head branch is `name`.
OpenChangesOf(name) ==
    { id \in ChangeIDs : changes[id].exists /\ changes[id].head = name }

\* len(changes) of FindChangesByBranch(name, {State: open, Limit: 3}).
FindCount(name) ==
    IF Cardinality(OpenChangesOf(name)) > FindLimit
    THEN FindLimit ELSE Cardinality(OpenChangesOf(name))

\* FindChangeItem.HeadHash: the tip of the change's head branch on the remote.
HeadHash(id) == remoteRef[changes[id].head]

FreeIDs == { id \in ChangeIDs : ~changes[id].exists }
NewChangeID == CHOOSE id \in FreeIDs : \A j \in FreeIDs : id <= j

----------------------------------------------------------------------------
(* branch submit: branchSubmitCmd.run.                                     *)

Nil == [err |-> "", arg |-> ""]
Err(msg, arg) == [err |-> msg, arg |-> arg]

Ev(op, ok) == [op |-> op, ok |-> ok]

Cmds ==
    [branch : {MainName, "a", "b"}, dryRun : BOOLEAN, noPublish : BOOLEAN,
     force : BOOLEAN, draft : {"nil", "true", "false"}]

NoCmd == [branch |-> "", dryRun |-> FALSE, noPublish |-> FALSE,
          force |-> FALSE, draft |-> "nil"]

\* branch.*: the record read by LookupBranch; path: which arm of
\* `if existingChange == nil` runs; observed/atPush: the tracking ref read
\* for the lease and the remote ref the push met.
NoLoc == [base |-> "", hash |-> NoHash, upstream |-> "", change |-> NoChange,
          commitHash |-> NoHash, upstreamBranch |-> "", path |-> "",
          existing |-> NoChange, headHash |-> NoHash,
          pullBase |-> "", pullDraft |-> FALSE, prepared |-> FALSE,
          lease |-> NoHash, observed |-> NoHash, atPush |-> NoHash,
          upsertChange |-> Keep, updates |-> {}]

Return(e) == pc' = "done" /\ ret' = e

\* Lines 284-289 and 378-385: the lease is the hash of the local
\* remote-tracking ref, when that ref exists and --force is not given.
LeaseNone(c, up) == NoHash

Lease(c, up) == IF ~c.force THEN trackingRef[up] ELSE NoHash

\* Lines 116-174: the preconditions and the derived values.
StartChecksNoRestack(c) ==
    IF c.branch = Trunk THEN "cannot submit trunk"
    ELSE IF Lookup(tree, c.branch).err # "" THEN "lookup branch"
    ELSE ""

StartChecks(c) ==
    IF c.branch = Trunk THEN "cannot submit trunk"
    ELSE IF Lookup(tree, c.branch).err # "" THEN "lookup branch"
    ELSE IF ~c.force /\ ~VerifyRestacked(tree, c.branch)
         THEN "refusing to submit outdated branch"
    ELSE ""

Start ==
    /\ pc = "idle"
    /\ \E c \in Cmds :
        LET b == Lookup(tree, c.branch)
        IN  /\ cmd' = c
            /\ events' = <<>>
            /\ IF StartChecks(c) # ""
               THEN /\ Return(Err(StartChecks(c), ""))
                    /\ UNCHANGED loc
               ELSE /\ loc' = [NoLoc EXCEPT
                                !.base = b.base,
                                !.hash = b.hash,
                                !.upstream = b.upstream,
                                !.change = b.change,
                                !.commitHash = Tip(c.branch),
                                !.upstreamBranch =
                                    IF b.upstream # "" THEN b.upstream ELSE c.branch]
                    /\ pc' = "find"
                    /\ UNCHANGED ret
    /\ UNCHANGED <<storeVars, gitVars, changes, repoVars>>

\* Lines 211-220: the upsert that associates the found change.
HealRequest(id) ==
    [upserts |-> << [name |-> cmd.branch, base |-> "", hash |-> NoHash,
                     upstream |-> "", change |-> id] >>,
     deletes |-> <<>>]

Existing(id) ==
    [loc EXCEPT !.path = "update",
                !.existing = id, !.headHash = HeadHash(id),
                !.pullBase = changes[id].base, !.pullDraft = changes[id].draft]

\* Lines 189-232: switch len(changes).
SearchCaseAdoptFirst(n) == IF n = 0 THEN "none" ELSE "one"
SearchCase(n) == IF n = 0 THEN "none" ELSE IF n = 1 THEN "one" ELSE "many"

\* Lines 179-242: find the change of the branch, by search or by id.
FindBySearch ==
    /\ loc.change = NoChange
    /\ \/ /\ Return(Err("list changes", ""))
          /\ UNCHANGED <<tree, loc, events>>
       \/ /\ SearchCase(FindCount(loc.upstreamBranch)) = "none"
          /\ pc' = "create"
          /\ loc' = [loc EXCEPT !.path = "create"]
          /\ UNCHANGED <<tree, ret, events>>
       \/ /\ SearchCase(FindCount(loc.upstreamBranch)) = "one"
          /\ LET id == CHOOSE i \in OpenChangesOf(loc.upstreamBranch) : TRUE
             IN  \/ /\ \E e \in {"get change metadata", "marshal change metadata"} :
                            Return(Err(e, ""))
                    /\ UNCHANGED <<tree, loc, events>>
                 \/ \E out \in UpdateOutcomes(tree, HealRequest(id)) :
                        /\ tree' = out[2]
                        /\ events' = Append(events, Ev("store.UpdateBranch", out[1] = ""))
                        /\ IF out[1] # ""
                           THEN Return(Err("update state", "")) /\ UNCHANGED loc
                           ELSE /\ loc' = Existing(id)
                                /\ pc' = "update"
                                /\ UNCHANGED ret
       \/ /\ SearchCase(FindCount(loc.upstreamBranch)) = "many"
          /\ Return(Err("multiple open change requests", cmd.branch))
          /\ UNCHANGED <<tree, loc, events>>

FindByID ==
    /\ loc.change # NoChange
    /\ \/ /\ Return(Err("find change", ""))
          /\ UNCHANGED loc
       \/ /\ loc.change \in ChangeIDs
          /\ changes[loc.change].exists
          /\ loc' = Existing(loc.change)
          /\ pc' = "update"
          /\ UNCHANGED ret
    /\ UNCHANGED <<tree, events>>

FindChange ==
    /\ pc = "find"
    /\ (FindBySearch \/ FindByID)
    /\ UNCHANGED <<trunk, last, gitVars, changes, cmd, repoVars>>

\* store.SavePreparedBranch and store.ClearPreparedBranch: each writes
\* the branch's prepared key when it succeeds and nothing when it fails.
SavePreparedBranch(t, name, ok) ==
    IF ok THEN [t EXCEPT ![preparedJSON(name)] = PreparedVal] ELSE t

ClearPreparedBranchNever(t, name, ok) == t

ClearPreparedBranch(t, name, ok) ==
    IF ok THEN [t EXCEPT ![preparedJSON(name)] = Absent] ELSE t

\* Lines 609-635: when the form prompts and a prepared branch is loaded,
\* the user recovers it or declines; declining clears it, and a failure
\* to clear is logged.  Each outcome is the store and the events added.
RecoveryOutcomes(t, name) ==
    { <<t, <<>>>> }
    \cup ( IF t[preparedJSON(name)] = Absent THEN {}
           ELSE { << ClearPreparedBranch(t, name, ok),
                     << Ev("store.ClearPreparedBranch", ok) >> >> :
                  ok \in BOOLEAN } )

PublishesAlways(c) == TRUE

\* Line 256: the change is prepared and published unless --no-publish.
Publishes(c) == ~c.noPublish

\* Lines 245-289: no change exists.  Dry run reports and returns;
\* otherwise the change is prepared (unless --no-publish) and the lease
\* for the push is taken.
CreateBegin ==
    /\ pc = "create"
    /\ IF cmd.dryRun
       THEN /\ Return(Nil)
            /\ UNCHANGED <<tree, loc, events>>
       ELSE IF Publishes(cmd)
       THEN \E rec \in RecoveryOutcomes(tree, cmd.branch) :
            \/ /\ Return(Err("prepare publish", ""))
               /\ tree' = rec[1]
               /\ events' = events \o rec[2]
               /\ UNCHANGED loc
            \/ \E saved \in BOOLEAN :
                /\ tree' = SavePreparedBranch(rec[1], cmd.branch, saved)
                /\ events' = (events \o rec[2])
                                \o << Ev("store.SavePreparedBranch", saved) >>
                /\ loc' = [loc EXCEPT !.prepared = TRUE,
                                      !.lease = Lease(cmd, loc.upstreamBranch),
                                      !.observed = trackingRef[loc.upstreamBranch]]
                /\ pc' = "push"
                /\ UNCHANGED ret
       ELSE /\ loc' = [loc EXCEPT !.lease = Lease(cmd, loc.upstreamBranch),
                                  !.observed = trackingRef[loc.upstreamBranch]]
            /\ pc' = "push"
            /\ UNCHANGED <<tree, ret, events>>
    /\ UNCHANGED <<trunk, last, gitVars, changes, cmd, repoVars>>

\* repo.Push with the refspec commitHash:refs/heads/upstreamBranch.
DoPush(ok) ==
    /\ remoteRef' = IF ok
                    THEN [remoteRef EXCEPT ![loc.upstreamBranch] = loc.commitHash]
                    ELSE remoteRef
    /\ trackingRef' = IF ok
                      THEN [trackingRef EXCEPT ![loc.upstreamBranch] = loc.commitHash]
                      ELSE trackingRef

\* Lines 291-316: push; on success queue the deferred store update and
\* set the branch's upstream.
Push ==
    /\ pc = "push"
    /\ \E ok \in PushOutcomes(cmd.force, loc.lease,
                              remoteRef[loc.upstreamBranch], loc.commitHash) :
        /\ DoPush(ok)
        /\ loc' = [loc EXCEPT !.atPush = remoteRef[loc.upstreamBranch]]
        /\ IF ok
           THEN /\ events' = events \o << Ev("git.Push", TRUE),
                                          Ev("git.SetBranchUpstream", TRUE) >>
                /\ pc' = IF loc.prepared THEN "publish" ELSE "deferred"
                /\ ret' = Nil
           ELSE /\ events' = Append(events, Ev("git.Push", FALSE))
                /\ Return(Err("push branch", ""))
    /\ UNCHANGED <<storeVars, forkPoint, changes, cmd, repoVars>>

\* preparedBranch.Publish passes Head: b.head, which preparePublish set
\* to cmd.Branch (line 662).
PublishHead == cmd.branch

\* Lines 318-335 and preparedBranch.Publish: create the change, clear
\* the prepared branch, and put the change into the queued upsert.
Publish ==
    /\ pc = "publish"
    /\ \/ /\ events' = Append(events, Ev("forge.SubmitChange", FALSE))
          /\ ret' = Err("create change", "")
          /\ UNCHANGED <<tree, changes, loc>>
       \/ /\ FreeIDs # {}
          /\ changes' = [changes EXCEPT ![NewChangeID] =
                            CR(PublishHead, loc.base, cmd.draft = "true", cmd.branch)]
          /\ \E cleared \in BOOLEAN :
                /\ tree' = ClearPreparedBranch(tree, cmd.branch, cleared)
                /\ events' = events \o << Ev("forge.SubmitChange", TRUE),
                                          Ev("store.ClearPreparedBranch", cleared) >>
          /\ \/ /\ \E e \in {"get change metadata", "marshal change ID"} :
                        ret' = Err(e, "")
                /\ UNCHANGED loc
             \/ /\ loc' = [loc EXCEPT !.upsertChange = NewChangeID]
                /\ ret' = Nil
    /\ pc' = "deferred"
    /\ UNCHANGED <<trunk, last, gitVars, cmd, repoVars>>

\* Lines 299-302: the queued upsert, as it stands when run() returns.
DeferredRequestNoUpstream ==
    [upserts |-> << [name |-> cmd.branch, base |-> "", hash |-> NoHash,
                     upstream |-> "", change |-> loc.upsertChange] >>,
     deletes |-> <<>>]

DeferredRequest ==
    [upserts |-> << [name |-> cmd.branch, base |-> "", hash |-> NoHash,
                     upstream |-> loc.upstreamBranch,
                     change |-> loc.upsertChange] >>,
     deletes |-> <<>>]

ReturnAfterDeferredOverridden(primary, updateErr) ==
    IF updateErr # "" THEN Err("update state", "") ELSE primary

\* Lines 308-310: the error of the deferred update is logged, and run()
\* returns what it was returning.
ReturnAfterDeferred(primary, updateErr) == primary

\* Lines 303-311: the deferred store update.
DeferredUpdate ==
    /\ pc = "deferred"
    /\ \E out \in UpdateOutcomes(tree, DeferredRequest) :
        /\ tree' = out[2]
        /\ events' = Append(events, Ev("store.UpdateBranch", out[1] = ""))
        /\ ret' = ReturnAfterDeferred(ret, out[1])
    /\ pc' = "done"
    /\ UNCHANGED <<trunk, last, gitVars, changes, cmd, loc, repoVars>>

\* Lines 345-355: what differs between the change and the branch.
Updates ==
    (IF loc.headHash # loc.commitHash THEN {"push branch"} ELSE {})
    \cup (IF loc.pullBase # loc.base THEN {"set base"} ELSE {})
    \cup (IF cmd.draft # "nil" /\ loc.pullDraft # (cmd.draft = "true")
          THEN {"set draft"} ELSE {})

\* Lines 340-385: a change exists.  Nothing to do, dry run, or go on to
\* push (taking the lease) and edit.
CheckUpdates ==
    /\ pc = "update"
    /\ IF Updates = {} \/ cmd.dryRun
       THEN /\ Return(Nil)
            /\ UNCHANGED loc
       ELSE /\ loc' = [loc EXCEPT
                        !.updates = Updates,
                        !.lease = IF loc.headHash # loc.commitHash
                                  THEN Lease(cmd, loc.upstreamBranch) ELSE NoHash,
                        !.observed = IF loc.headHash # loc.commitHash
                                     THEN trackingRef[loc.upstreamBranch] ELSE NoHash]
            /\ pc' = IF loc.headHash # loc.commitHash THEN "upush" ELSE "edit"
            /\ UNCHANGED ret
    /\ UNCHANGED <<storeVars, gitVars, changes, cmd, events, repoVars>>

\* Lines 387-391: the push of the update path.
UpdatePush ==
    /\ pc = "upush"
    /\ \E ok \in PushOutcomes(cmd.force, loc.lease,
                              remoteRef[loc.upstreamBranch], loc.commitHash) :
        /\ DoPush(ok)
        /\ loc' = [loc EXCEPT !.atPush = remoteRef[loc.upstreamBranch]]
        /\ events' = Append(events, Ev("git.Push", ok))
        /\ IF ok
           THEN pc' = "edit" /\ UNCHANGED ret
           ELSE Return(Err("push branch", ""))
    /\ UNCHANGED <<storeVars, forkPoint, changes, cmd, repoVars>>

\* Line 393: the guard of the EditChange call.
NeedsEdit == Cardinality(loc.updates) > 0

EditedKeepsBase(c) ==
    [c EXCEPT !.draft = IF cmd.draft = "nil" THEN c.draft ELSE cmd.draft = "true"]

\* remoteRepo.EditChange(id, {Base: branch.Base, Draft: cmd.Draft}).
Edited(c) ==
    [c EXCEPT !.base = loc.base,
              !.draft = IF cmd.draft = "nil" THEN c.draft ELSE cmd.draft = "true"]

\* Lines 393-404: edit the change.
EditChange ==
    /\ pc = "edit"
    /\ IF NeedsEdit
       THEN \/ /\ events' = Append(events, Ev("forge.EditChange", FALSE))
               /\ Return(Err("edit CR", ""))
               /\ UNCHANGED changes
            \/ /\ events' = Append(events, Ev("forge.EditChange", TRUE))
               /\ changes' = [changes EXCEPT ![loc.existing] = Edited(changes[loc.existing])]
               /\ Return(Nil)
       ELSE /\ Return(Nil)
            /\ UNCHANGED <<changes, events>>
    /\ UNCHANGED <<storeVars, gitVars, cmd, loc, repoVars>>

\* Another actor moves the branch on the remote (to its own commit, or
\* back to commit 1) while submit is between taking the lease and pushing.
OtherActorPush ==
    /\ pc \in {"push", "upush"}
    /\ \E h \in {1, OtherCommit(loc.upstreamBranch)} :
        /\ remoteRef[loc.upstreamBranch] # h
        /\ remoteRef' = [remoteRef EXCEPT ![loc.upstreamBranch] = h]
    /\ UNCHANGED <<storeVars, trackingRef, forkPoint, changes, runVars, repoVars>>

\* The command returned; the user runs `branch submit` again.
Rerun ==
    /\ pc = "done"
    /\ pc' = "idle"
    /\ cmd' = NoCmd
    /\ loc' = NoLoc
    /\ ret' = Nil
    /\ events' = <<>>
    /\ UNCHANGED <<storeVars, gitVars, changes, repoVars>>

----------------------------------------------------------------------------
(* Initial states.                                                         *)

\* The local repository as `branch submit` and the store see it: not at
\* all.  HEAD stays on the trunk and no command makes a commit.
NoRepo ==
    /\ HEAD = [branch |-> MainName, at |-> 1]
    /\ localRef = [n \in AllNames |-> NoHash]
    /\ commits = <<>>
    /\ staged = FALSE

\* Branch a is tracked on top of main; b is a name without a record.
InitTree(up, ch) ==
    [EmptyTree EXCEPT ![_repoJSON] = repoInfo(MainName),
                      ![branchJSON("a")] = branchState(MainName, 1, up, ch)]

Refs(name, h) == [n \in BranchNames |-> IF n = name THEN h ELSE NoHash]

InitChanges ==
    { [id \in ChangeIDs |-> NoCR] }
    \cup { [id \in ChangeIDs |-> IF id = 1 THEN c ELSE NoCR] :
            c \in { CR(h, b, d, "") : h \in BranchNames, b \in {MainName, "b"},
                                      d \in BOOLEAN } }
    \cup { [id \in ChangeIDs |-> IF id = 1 THEN CR(h, MainName, FALSE, "")
                                 ELSE IF id = 2 THEN CR(h, "b", FALSE, "") ELSE NoCR] :
            h \in BranchNames }

Init ==
    /\ trunk = MainName
    /\ last = NoLast
    /\ \E up \in {"", "b"}, ch \in {NoChange, 1} :
        /\ tree = InitTree(up, ch)
        /\ \E tr \in { <<0, 0>>, <<1, 1>>, <<2, 2>>, <<0, 1>> } :
            /\ trackingRef = Refs(IF up = "" THEN "a" ELSE up, tr[1])
            /\ remoteRef = Refs(IF up = "" THEN "a" ELSE up, tr[2])
    /\ forkPoint \in [BranchNames -> {1}] \cup [BranchNames -> {2}]
    /\ changes \in InitChanges
    /\ pc = "idle"
    /\ cmd = NoCmd
    /\ loc = NoLoc
    /\ ret = Nil
    /\ events = <<>>
    /\ NoRepo

Next ==
    \/ Start
    \/ FindChange
    \/ CreateBegin
    \/ Push
    \/ Publish
    \/ DeferredUpdate
    \/ CheckUpdates
    \/ UpdatePush
    \/ EditChange
    \/ OtherActorPush
    \/ Rerun

Spec == Init /\ [][Next]_vars

----------------------------------------------------------------------------
(* The store specification: a store opened on trunk "main", and any        *)
(* sequence of Store.Update calls on it.                                   *)

InitStoreState ==
    /\ tree = [EmptyTree EXCEPT ![_repoJSON] = repoInfo(MainName)]
    /\ trunk = MainName
    /\ last = NoLast
    /\ remoteRef = Refs("a", NoHash)
    /\ trackingRef = Refs("a", NoHash)
    /\ forkPoint = [n \in BranchNames |-> 1]
    /\ changes = [id \in ChangeIDs |-> NoCR]
    /\ pc = "off"
    /\ cmd = NoCmd
    /\ loc = NoLoc
    /\ ret = Nil
    /\ events = <<>>
    /\ NoRepo

StoreUpdate ==
    \E req \in UpdateRequests :
        \E out \in UpdateOutcomes(tree, req) :
            /\ tree' = out[2]
            /\ last' = [op |-> "update", trunkUpsert |-> HasTrunkUpsert(req),
                        n |-> Len(req.upserts), force |-> FALSE, err |-> out[1]]
            /\ UNCHANGED <<trunk, gitVars, changes, runVars, repoVars>>

\* InitStore is called on the repository, with or without Force.
StoreInit ==
    \E req \in InitStoreRequests :
        \E out \in InitStoreOutcomes(tree, req) :
            /\ tree' = out[2]
            /\ trunk' = IF out[1] = "" THEN req.trunk ELSE trunk
            /\ last' = [op |-> "init", trunkUpsert |-> FALSE, n |-> 0,
                        force |-> req.force, err |-> out[1]]
            /\ UNCHANGED <<gitVars, changes, runVars, repoVars>>

NextStore == StoreUpdate \/ StoreInit

SpecStore == InitStoreState /\ [][NextStore]_vars

----------------------------------------------------------------------------
(* The local repository of branch create and branch fold.                  *)

\* A commit is its place in `commits`; each has one parent (0: none).
Commit(parent, empty) == [parent |-> parent, empty |-> empty]
Parent(cs, c) == IF c \in 1..Len(cs) THEN cs[c].parent ELSE NoHash

RECURSIVE IsAncestorIn(_, _, _)
IsAncestorIn(cs, x, y) ==
    IF y = NoHash \/ x = NoHash THEN FALSE
    ELSE IF x = y THEN TRUE
    ELSE IsAncestorIn(cs, x, Parent(cs, y))

\* repo.MergeBase / ForkPoint: the nearest commit of x's history that is
\* in y's history.
RECURSIVE MergeBase(_, _, _)
MergeBase(cs, x, y) ==
    IF x = NoHash THEN NoHash
    ELSE IF IsAncestorIn(cs, x, y) THEN x
    ELSE MergeBase(cs, Parent(cs, x), y)

\* The fork point of each tracked branch with its base, as git reports it.
ForkPoints(t, refs, cs) ==
    [n \in BranchNames |->
        IF Lookup(t, n).err = "" /\ refs[n] # NoHash
        THEN MergeBase(cs, refs[n], refs[Lookup(t, n).base])
        ELSE NoHash]

\* HEAD on a branch, and HEAD detached at a commit.
OnBranch(refs, name) == [branch |-> name, at |-> refs[name]]
Detached(c) == [branch |-> "", at |-> c]

\* Names in sorted order, and the sorted list of a set of names.
NameOrder == <<"a", "b", "main", "repo">>
SortedNames(S) == SelectSeq(NameOrder, LAMBDA n : n \in S)

\* svc.ListAbove: the branches whose base is `name`.
ListAbove(t, name) == SortedNames({ x \in List(t) : Lookup(t, x).base = name })

EvArg(op, arg, ok) == [op |-> op, arg |-> arg, ok |-> ok]

----------------------------------------------------------------------------
(* branch create: branchCreateCmd.Run.                                     *)

CreateCmds ==
    [op : {"create"}, name : {"", "a", "b"}, insert : BOOLEAN, below : BOOLEAN]

\* The locals of Run.  pre and preRefs keep the store and the branches as
\* the command found them.
NoOpLoc == [current |-> "", currentHash |-> NoHash, diff |-> FALSE,
            baseName |-> "", baseHash |-> NoHash, restackOntoNew |-> <<>>,
            aboves |-> <<>>, newBaseHash |-> NoHash,
            pre |-> EmptyTree, preRefs |-> [n \in AllNames |-> NoHash],
            preCommits |-> 0]

\* What every step of the two commands leaves alone, and the fork points
\* that follow from the branches and the records.
RepoFrame ==
    /\ forkPoint' = ForkPoints(tree', localRef', commits')
    /\ UNCHANGED <<trunk, last, remoteRef, trackingRef, changes>>

NeedsRestoreNever(e) == FALSE

\* Line 98: the deferred function acts when Run returns an error.
NeedsRestore(e) == e.err # ""

\* errors.Join(err, repo.Checkout(ctx, currentBranch)).
Joined(e, ok) == [err |-> e.err, arg |-> IF ok THEN e.arg ELSE "checkout"]

\* A return of Run after line 97: the deferred function checks out the
\* original branch when an error is being returned.
ReturnRestoring(e, evs) ==
    IF NeedsRestore(e)
    THEN \E ok \in BOOLEAN :
            /\ HEAD' = IF ok THEN OnBranch(localRef, loc.current) ELSE HEAD
            /\ events' = Append(evs, EvArg("git.Checkout", loc.current, ok))
            /\ Return(Joined(e, ok))
    ELSE /\ Return(e)
         /\ events' = evs
         /\ UNCHANGED HEAD

CreateBaseHashOfCurrent(c, current, currentHash) ==
    LET b == Lookup(tree, current)
        plain == [err |-> Nil, baseName |-> current, baseHash |-> currentHash,
                  restackOntoNew |-> <<>>]
    IN  IF c.below
        THEN IF current = Trunk
             THEN [plain EXCEPT !.err = Err("--below cannot be used from", Trunk)]
             ELSE IF b.err # ""
             THEN [plain EXCEPT !.err = Err("branch not tracked", current)]
             ELSE [plain EXCEPT !.baseName = b.base,
                                !.restackOntoNew = <<current>>]
        ELSE IF c.insert
        THEN [plain EXCEPT !.restackOntoNew = ListAbove(tree, current)]
        ELSE plain

\* Lines 59-90: the base of the new branch and the branches to restack
\* onto it; err is the error of an early return.
CreateBase(c, current, currentHash) ==
    LET b == Lookup(tree, current)
        plain == [err |-> Nil, baseName |-> current, baseHash |-> currentHash,
                  restackOntoNew |-> <<>>]
    IN  IF c.below
        THEN IF current = Trunk
             THEN [plain EXCEPT !.err = Err("--below cannot be used from", Trunk)]
             ELSE IF b.err # ""
             THEN [plain EXCEPT !.err = Err("branch not tracked", current)]
             ELSE [plain EXCEPT !.baseName = b.base, !.baseHash = b.hash,
                                !.restackOntoNew = <<current>>]
        ELSE IF c.insert
        THEN [plain EXCEPT !.restackOntoNew = ListAbove(tree, current)]
        ELSE plain

\* Lines 23-101: the checks, the current branch, and the detached HEAD.
CreateStart ==
    /\ pc = "idle"
    /\ Len(commits) < MaxCommits
    /\ \E c \in CreateCmds :
        LET base == CreateBase(c, HEAD.branch, HEAD.at)
        IN  /\ cmd' = c
            /\ IF c.name = ""
               THEN /\ Return(Err("branch name is required", ""))
                    /\ events' = <<>>
                    /\ UNCHANGED <<loc, HEAD>>
               ELSE IF HEAD.branch = ""
               THEN /\ Return(Err("get current branch", ""))
                    /\ events' = <<>>
                    /\ UNCHANGED <<loc, HEAD>>
               ELSE IF base.err # Nil
               THEN /\ Return(base.err)
                    /\ events' = <<>>
                    /\ UNCHANGED <<loc, HEAD>>
               ELSE /\ loc' = [NoOpLoc EXCEPT
                                !.current = HEAD.branch,
                                !.currentHash = HEAD.at,
                                !.diff = staged,
                                !.baseName = base.baseName,
                                !.baseHash = base.baseHash,
                                !.restackOntoNew = base.restackOntoNew,
                                !.pre = tree, !.preRefs = localRef,
                                !.preCommits = Len(commits)]
                    /\ \/ /\ Return(Err("detach head", ""))
                          /\ events' = << EvArg("git.DetachHead", base.baseName, FALSE) >>
                          /\ UNCHANGED HEAD
                       \/ /\ localRef[base.baseName] # NoHash
                          /\ HEAD' = Detached(localRef[base.baseName])
                          /\ events' = << EvArg("git.DetachHead", base.baseName, TRUE) >>
                          /\ pc' = "c.commit"
                          /\ UNCHANGED ret
    /\ UNCHANGED <<tree, localRef, commits, staged>>
    /\ RepoFrame

\* Line 104: AllowEmpty is len(diff) == 0.
AllowEmpty(diff) == ~diff

\* Lines 103-108: the commit on top of the detached HEAD.
CreateCommit ==
    /\ pc = "c.commit"
    /\ \/ /\ ReturnRestoring(Err("commit", ""),
                               Append(events, EvArg("git.Commit", "", FALSE)))
          /\ UNCHANGED <<commits, staged>>
       \/ /\ staged \/ AllowEmpty(loc.diff)
          /\ commits' = Append(commits, Commit(HEAD.at, ~staged))
          /\ HEAD' = Detached(Len(commits) + 1)
          /\ staged' = FALSE
          /\ events' = Append(events, EvArg("git.Commit", "", TRUE))
          /\ pc' = "c.branch"
          /\ UNCHANGED ret
    /\ UNCHANGED <<tree, localRef, cmd, loc>>
    /\ RepoFrame

\* Lines 110-115: the new branch at HEAD.
CreateBranch ==
    /\ pc = "c.branch"
    /\ \/ /\ ReturnRestoring(Err("create branch", ""),
                               Append(events, EvArg("git.CreateBranch", cmd.name, FALSE)))
          /\ UNCHANGED localRef
       \/ /\ localRef[cmd.name] = NoHash
          /\ localRef' = [localRef EXCEPT ![cmd.name] = HEAD.at]
          /\ events' = Append(events, EvArg("git.CreateBranch", cmd.name, TRUE))
          /\ pc' = "c.checkout"
          /\ UNCHANGED <<ret, HEAD>>
    /\ UNCHANGED <<tree, commits, staged, cmd, loc>>
    /\ RepoFrame

\* Lines 117-119: HEAD moves onto the new branch.
CreateCheckout ==
    /\ pc = "c.checkout"
    /\ \/ ReturnRestoring(Err("checkout branch", ""),
                           Append(events, EvArg("git.Checkout", cmd.name, FALSE)))
       \/ /\ HEAD' = OnBranch(localRef, cmd.name)
          /\ events' = Append(events, EvArg("git.Checkout", cmd.name, TRUE))
          /\ pc' = "c.update"
          /\ UNCHANGED ret
    /\ UNCHANGED <<tree, localRef, commits, staged, cmd, loc>>
    /\ RepoFrame

CreateRequestNoBaseHash(c, l) ==
    [upserts |->
        << Upsert(c.name, l.baseName, NoHash, Keep) >>
        \o [i \in 1..Len(l.restackOntoNew) |->
                Upsert(l.restackOntoNew[i], c.name, NoHash, Keep)],
     deletes |-> <<>>]

\* Lines 121-135 and 146-148: the upsert of the new branch, then one
\* upsert per branch that moves onto it.
CreateRequest(c, l) ==
    [upserts |->
        << Upsert(c.name, l.baseName, l.baseHash, Keep) >>
        \o [i \in 1..Len(l.restackOntoNew) |->
                Upsert(l.restackOntoNew[i], c.name, NoHash, Keep)],
     deletes |-> <<>>]

\* Line 153: the restack follows for --below and --insert.
RestackFollows(c) == c.below \/ c.insert

\* Lines 121-157: the store update, and the return or the restack.
CreateUpdate ==
    /\ pc = "c.update"
    /\ \E out \in UpdateOutcomes(tree, CreateRequest(cmd, loc)) :
        /\ tree' = out[2]
        /\ IF out[1] # ""
           THEN ReturnRestoring(Err("update state", ""),
                                Append(events, EvArg("store.Update", "", FALSE)))
           ELSE IF RestackFollows(cmd)
           THEN /\ events' = Append(events, EvArg("store.Update", "", TRUE))
                /\ pc' = "c.restack"
                /\ UNCHANGED <<ret, HEAD>>
           ELSE ReturnRestoring(Nil, Append(events, EvArg("store.Update", "", TRUE)))
    /\ UNCHANGED <<localRef, commits, staged, cmd, loc>>
    /\ RepoFrame

\* The branches an upstack restack of the new branch rebases: those moved
\* onto it that exist in git.
ToRebase ==
    { loc.restackOntoNew[i] : i \in 1..Len(loc.restackOntoNew) }
    \cap { x \in BranchNames : x # cmd.name /\ localRef[x] # NoHash }

\* upstackRestackCmd.Run: each branch is rebased onto the tip of the new
\* branch and its record gets that tip as base hash; or the restack fails.
CreateRestack ==
    /\ pc = "c.restack"
    /\ \/ /\ ReturnRestoring(Err("restack", ""),
                               Append(events, EvArg("upstackRestack", "", FALSE)))
          /\ UNCHANGED <<tree, commits>>
       \/ /\ \A x \in ToRebase :
                ~IsAncestorIn(commits, localRef[x], localRef[cmd.name])
          /\ commits' = [c \in 1..Len(commits) |->
                            IF \E x \in ToRebase : localRef[x] = c
                            THEN [commits[c] EXCEPT !.parent = localRef[cmd.name]]
                            ELSE commits[c]]
          /\ tree' = [k \in Keys |->
                        IF \E x \in ToRebase :
                                k = branchJSON(x) /\ tree[k].kind = "branch"
                        THEN [tree[k] EXCEPT !.hash = localRef[cmd.name]]
                        ELSE tree[k]]
          /\ ReturnRestoring(Nil, Append(events, EvArg("upstackRestack", "", TRUE)))
    /\ UNCHANGED <<localRef, staged, cmd, loc>>
    /\ RepoFrame

----------------------------------------------------------------------------
(* branch fold: branchFoldCmd.Run.                                         *)

FoldCmds == [op : {"fold"}, branch : {"", "a", "b", MainName}]

FoldChecksNoRestack(branch) ==
    IF Lookup(tree, branch).err # "" THEN Err("branch not tracked", branch)
    ELSE Nil

\* Lines 43-53: the error of svc.VerifyRestacked, as fold reports it.
FoldChecks(branch) ==
    IF Lookup(tree, branch).err # "" THEN Err("branch not tracked", branch)
    ELSE IF ~VerifyRestacked(tree, branch)
    THEN Err("needs to be restacked before it can be folded", branch)
    ELSE Nil

\* Lines 29-63: the branch to fold, the checks, its record and the
\* branches above it.
FoldStart ==
    /\ pc = "idle"
    /\ \E c \in FoldCmds :
        LET branch == IF c.branch = "" THEN HEAD.branch ELSE c.branch
        IN  /\ cmd' = [c EXCEPT !.branch = branch]
            /\ events' = <<>>
            /\ IF branch = ""
               THEN Return(Err("get current branch", "")) /\ UNCHANGED loc
               ELSE IF FoldChecks(branch) # Nil
               THEN Return(FoldChecks(branch)) /\ UNCHANGED loc
               ELSE /\ loc' = [NoOpLoc EXCEPT
                                !.current = HEAD.branch,
                                !.baseName = Lookup(tree, branch).base,
                                !.baseHash = Lookup(tree, branch).hash,
                                !.aboves = ListAbove(tree, branch),
                                !.pre = tree, !.preRefs = localRef,
                                !.preCommits = Len(commits)]
                    /\ pc' = "f.fetch"
                    /\ UNCHANGED ret
    /\ UNCHANGED <<tree, repoVars>>
    /\ RepoFrame

\* Lines 68-80: the local fetch Branch:Base, a fast-forward of the base
\* (git does not fetch into the branch that is checked out), and the new
\* tip of the base.
FoldFetch ==
    /\ pc = "f.fetch"
    /\ \/ /\ Return(Err("update base branch", ""))
          /\ events' = Append(events, EvArg("git.Fetch", loc.baseName, FALSE))
          /\ UNCHANGED <<localRef, loc>>
       \/ /\ localRef[cmd.branch] # NoHash
          /\ HEAD.branch # loc.baseName
          /\ \/ localRef[loc.baseName] = NoHash
             \/ IsAncestorIn(commits, localRef[loc.baseName], localRef[cmd.branch])
          /\ localRef' = [localRef EXCEPT ![loc.baseName] = localRef[cmd.branch]]
          /\ loc' = [loc EXCEPT !.newBaseHash = localRef[cmd.branch]]
          /\ events' = Append(events, EvArg("git.Fetch", loc.baseName, TRUE))
          /\ pc' = "f.update"
          /\ UNCHANGED ret
    /\ UNCHANGED <<tree, HEAD, commits, staged, cmd>>
    /\ RepoFrame

\* Lines 84-97: one upsert per branch above, and the delete of the
\* folded branch.
FoldUpdateRequest(c, l) ==
    [upserts |-> [i \in 1..Len(l.aboves) |->
                    Upsert(l.aboves[i], l.baseName, l.newBaseHash, Keep)],
     deletes |-> << c.branch >>]

\* Lines 93-100: the store update.
FoldUpdate ==
    /\ pc = "f.update"
    /\ \E out \in UpdateOutcomes(tree, FoldUpdateRequest(cmd, loc)) :
        /\ tree' = out[2]
        /\ events' = Append(events, EvArg("store.UpdateBranch", "", out[1] = ""))
        /\ IF out[1] # ""
           THEN Return(Err("upsert branches", ""))
           ELSE pc' = "f.checkout" /\ UNCHANGED ret
    /\ UNCHANGED <<repoVars, cmd, loc>>
    /\ RepoFrame

\* Lines 103-105: check out the base.
FoldCheckout ==
    /\ pc = "f.checkout"
    /\ \/ /\ Return(Err("checkout base", ""))
          /\ events' = Append(events, EvArg("git.Checkout", loc.baseName, FALSE))
          /\ UNCHANGED HEAD
       \/ /\ HEAD' = OnBranch(localRef, loc.baseName)
          /\ events' = Append(events, EvArg("git.Checkout", loc.baseName, TRUE))
          /\ pc' = "f.delete"
          /\ UNCHANGED ret
    /\ UNCHANGED <<tree, localRef, commits, staged, cmd, loc>>
    /\ RepoFrame

\* Lines 107-114: delete the folded branch (not the one checked out).
FoldDelete ==
    /\ pc = "f.delete"
    /\ \/ /\ Return(Err("delete branch", ""))
          /\ events' = Append(events, EvArg("git.DeleteBranch", cmd.branch, FALSE))
          /\ UNCHANGED localRef
       \/ /\ HEAD.branch # cmd.branch
          /\ localRef' = [localRef EXCEPT ![cmd.branch] = NoHash]
          /\ events' = Append(events, EvArg("git.DeleteBranch", cmd.branch, TRUE))
          /\ Return(Nil)
    /\ UNCHANGED <<tree, HEAD, commits, staged, cmd, loc>>
    /\ RepoFrame

----------------------------------------------------------------------------
(* The user between two commands, and the specification of create and fold. *)

UserCheckout ==
    /\ pc = "idle"
    /\ \E n \in {MainName} \cup BranchNames :
        /\ localRef[n] # NoHash
        /\ HEAD # OnBranch(localRef, n)
        /\ HEAD' = OnBranch(localRef, n)
    /\ UNCHANGED <<tree, localRef, commits, staged, runVars>>
    /\ RepoFrame

\* git commit -a on the current branch.
UserCommit ==
    /\ pc = "idle"
    /\ HEAD.branch # ""
    /\ Len(commits) < MaxCommits
    /\ commits' = Append(commits, Commit(HEAD.at, FALSE))
    /\ localRef' = [localRef EXCEPT ![HEAD.branch] = Len(commits) + 1]
    /\ HEAD' = [HEAD EXCEPT !.at = Len(commits) + 1]
    /\ staged' = FALSE
    /\ UNCHANGED <<tree, runVars>>
    /\ RepoFrame

\* git reset --hard HEAD~ on a branch that has branches stacked on it: its
\* tip moves back to the parent commit, away from their recorded base hash.
UserReset ==
    /\ pc = "idle"
    /\ HEAD.branch \in BranchNames
    /\ ListAbove(tree, HEAD.branch) # <<>>
    /\ Parent(commits, HEAD.at) # NoHash
    /\ localRef' = [localRef EXCEPT ![HEAD.branch] = Parent(commits, HEAD.at)]
    /\ HEAD' = [HEAD EXCEPT !.at = Parent(commits, HEAD.at)]
    /\ UNCHANGED <<tree, commits, staged, runVars>>
    /\ RepoFrame

\* The command returned; the user may run the next one.
NextCommand ==
    /\ pc = "done"
    /\ pc' = "idle"
    /\ cmd' = NoCmd
    /\ loc' = NoOpLoc
    /\ ret' = Nil
    /\ events' = <<>>
    /\ UNCHANGED <<tree, repoVars>>
    /\ RepoFrame

\* A freshly initialized store in a repository with one commit on main;
\* the user may have made a branch a with git alone.
InitOps ==
    /\ tree = [EmptyTree EXCEPT ![_repoJSON] = repoInfo(MainName)]
    /\ trunk = MainName
    /\ last = NoLast
    /\ remoteRef = Refs("a", NoHash)
    /\ trackingRef = Refs("a", NoHash)
    /\ forkPoint = [n \in BranchNames |-> NoHash]
    /\ changes = [id \in ChangeIDs |-> NoCR]
    /\ pc = "idle"
    /\ cmd = NoCmd
    /\ loc = NoOpLoc
    /\ ret = Nil
    /\ events = <<>>
    /\ commits = << Commit(NoHash, FALSE) >>
    /\ \E byHand \in {NoHash, 1} :
        localRef = [n \in AllNames |->
                        IF n = MainName THEN 1 ELSE IF n = "a" THEN byHand ELSE NoHash]
    /\ \E n \in {MainName, "a"} :
        /\ localRef[n] # NoHash
        /\ HEAD = OnBranch(localRef, n)
    /\ staged \in BOOLEAN

NextOps ==
    \/ CreateStart
    \/ CreateCommit
    \/ CreateBranch
    \/ CreateCheckout
    \/ CreateUpdate
    \/ CreateRestack
    \/ FoldStart
    \/ FoldFetch
    \/ FoldUpdate
    \/ FoldCheckout
    \/ FoldDelete
    \/ UserCheckout
    \/ UserCommit
    \/ UserReset
    \/ NextCommand

SpecOps == InitOps /\ [][NextOps]_vars

----------------------------------------------------------------------------
(* The upsert specification: one Store.Update call on each prior store and *)
(* each request of a family built around one upsert of branch a.           *)

\* Every combination of the fields an UpsertRequest for a can supply.
UpsertsOfA ==
    [name : {"a"}, base : {"", MainName, "b"}, hash : {NoHash, 1, 2},
     upstream : {""}, change : {Keep, NoChange, 1, 2}]

\* The upserts that travel in the same request: of another branch, and
\* of a once more.
UpsertsBeside ==
    { [name |-> "b", base |-> MainName, hash |-> 1, upstream |-> "", change |-> Keep],
      [name |-> "b", base |-> "", hash |-> NoHash, upstream |-> "", change |-> 1],
      [name |-> "a", base |-> MainName, hash |-> 2, upstream |-> "", change |-> Keep] }

UpsertCases ==
    { [upserts |-> <<u>> \o rest, deletes |-> d] :
        u \in UpsertsOfA, rest \in SeqsUpTo(UpsertsBeside, MaxUpserts - 1),
        d \in {<<>>, <<"b">>} }
    \cup { [upserts |-> rest \o <<u>>, deletes |-> <<>>] :
        u \in UpsertsOfA, rest \in SeqsUpTo(UpsertsBeside, MaxUpserts - 1) }

\* The stores the call meets: a without a record or with one, b likewise.
UpsertPriors ==
    { [EmptyTree EXCEPT ![_repoJSON] = repoInfo(MainName),
                        ![branchJSON("a")] = ra, ![branchJSON("b")] = rb] :
        ra \in {Absent} \cup { branchState(b, h, "", c) :
                                  b \in {MainName, "b"}, h \in {1, 2},
                                  c \in {NoChange, 1} },
        rb \in {Absent, branchState(MainName, 1, "", NoChange)} }

InitUpsert ==
    /\ tree \in UpsertPriors
    /\ trunk = MainName
    /\ last = NoLast
    /\ remoteRef = Refs("a", NoHash)
    /\ trackingRef = Refs("a", NoHash)
    /\ forkPoint = [n \in BranchNames |-> 1]
    /\ changes = [id \in ChangeIDs |-> NoCR]
    /\ pc = "upsert"
    /\ cmd = NoCmd
    /\ \E req \in UpsertCases : loc = [pre |-> tree, req |-> req]
    /\ ret = Nil
    /\ events = <<>>
    /\ NoRepo

ApplyUpsert ==
    /\ pc = "upsert"
    /\ \E out \in UpdateOutcomes(tree, loc.req) :
        /\ tree' = out[2]
        /\ last' = [op |-> "update", trunkUpsert |-> HasTrunkUpsert(loc.req),
                    n |-> Len(loc.req.upserts), force |-> FALSE, err |-> out[1]]
    /\ pc' = "upserted"
    /\ UNCHANGED <<trunk, gitVars, changes, cmd, loc, ret, events, repoVars>>

NextUpsert == ApplyUpsert

SpecUpsert == InitUpsert /\ [][NextUpsert]_vars

----------------------------------------------------------------------------
(* The concurrent specification: two processes, each making one            *)
(* Store.Update call on the same store, and a reader.  A call is the loop  *)
(* of lines 210-251, one Lookup per upsert, followed by the backend update. *)

Procs == {"p1", "p2"}

\* An upsert that sets only the base, and one that sets only the PR.
BaseOnly == [upserts |-> << Upsert("a", "b", NoHash, Keep) >>, deletes |-> <<>>]
ChangeOnly == [upserts |-> << Upsert("a", "", NoHash, 1) >>, deletes |-> <<>>]
\* branch create b --below, run on a (part_001, lines 121-151).
BelowRequest ==
    [upserts |-> << Upsert("b", MainName, 1, Keep), Upsert("a", "b", NoHash, Keep) >>,
     deletes |-> <<>>]
\* branch fold of b, whose child is a (part_002, lines 84-97).
FoldRequest ==
    [upserts |-> << Upsert("a", MainName, 2, Keep) >>, deletes |-> <<"b">>]

ConcRequests == {BaseOnly, ChangeOnly, BelowRequest, FoldRequest}

NoReq == [upserts |-> <<>>, deletes |-> <<>>]
NoCall == [req |-> NoReq, i |-> 0, sets |-> <<>>, calls |-> <<>>, err |-> ""]

\* What a reader gets from one snapshot of the store.
Snapshot(t) == [a |-> Lookup(t, "a"), b |-> Lookup(t, "b")]

InitConc ==
    /\ \E rb \in {Absent, branchState(MainName, 1, "", NoChange)} :
        tree = [EmptyTree EXCEPT ![_repoJSON] = repoInfo(MainName),
                    ![branchJSON("a")] = branchState(MainName, 1, "", NoChange),
                    ![branchJSON("b")] = rb]
    /\ trunk = MainName
    /\ last = NoLast
    /\ remoteRef = Refs("a", NoHash)
    /\ trackingRef = Refs("a", NoHash)
    /\ forkPoint = [n \in BranchNames |-> 1]
    /\ changes = [id \in ChangeIDs |-> NoCR]
    /\ pc = [p \in Procs |-> "idle"]
    /\ cmd = NoCmd
    /\ loc = [p \in Procs |-> NoCall]
    /\ ret = Snapshot(tree)
    /\ events = <<>>
    /\ NoRepo

\* Line 209: the call begins; sets holds len(req.Upserts) zero values.
ConcStart(p) ==
    /\ pc[p] = "idle"
    /\ \E req \in ConcRequests :
        loc' = [loc EXCEPT ![p] = [NoCall EXCEPT
                    !.req = req, !.i = 1,
                    !.sets = [k \in 1..Len(req.upserts) |-> ZeroSet]]]
    /\ pc' = [pc EXCEPT ![p] = "loop"]
    /\ UNCHANGED <<storeVars, gitVars, changes, cmd, ret, events, repoVars>>

\* Lines 210-251: one iteration: Lookup of the branch in the store as it
\* is now, the merge, and the append.
ConcLoop(p) ==
    /\ pc[p] = "loop"
    /\ LET c == loc[p]
           u == c.req.upserts[c.i]
           sets == Append(c.sets, [key |-> branchJSON(u.name),
                                   val |-> MergeUpsert(tree, u)])
       IN  IF UpsertError(tree, u) # ""
           THEN /\ loc' = [loc EXCEPT ![p].err = UpsertError(tree, u)]
                /\ pc' = [pc EXCEPT ![p] = "done"]
           ELSE /\ loc' = [loc EXCEPT
                            ![p].sets = sets,
                            ![p].i = c.i + 1,
                            ![p].calls =
                                IF c.i = Len(c.req.upserts)
                                THEN UpdateCalls(sets, UpdateDels(c.req.deletes))
                                ELSE <<>>]
                /\ pc' = [pc EXCEPT ![p] =
                            IF c.i = Len(c.req.upserts) THEN "write" ELSE "loop"]
    /\ UNCHANGED <<storeVars, gitVars, changes, cmd, ret, events, repoVars>>

\* Lines 253-262: the backend update, which commits or fails.
ConcWrite(p) ==
    /\ pc[p] = "write"
    /\ \/ /\ loc' = [loc EXCEPT ![p].err = "update"]
          /\ pc' = [pc EXCEPT ![p] = "done"]
          /\ UNCHANGED tree
       \/ /\ tree' = BackendUpdate(tree, Head(loc[p].calls).sets,
                                    Head(loc[p].calls).dels)
          /\ loc' = [loc EXCEPT ![p].calls = Tail(loc[p].calls)]
          /\ pc' = [pc EXCEPT ![p] =
                        IF Len(loc[p].calls) = 1 THEN "done" ELSE "write"]
    /\ UNCHANGED <<trunk, last, gitVars, changes, cmd, ret, events, repoVars>>

\* A reader opens the store's current snapshot and looks up a and b.
ConcRead ==
    /\ ret' = Snapshot(tree)
    /\ UNCHANGED <<storeVars, gitVars, changes, pc, cmd, loc, events, repoVars>>

NextConc ==
    \/ \E p \in Procs : ConcStart(p)
    \/ \E p \in Procs : ConcLoop(p)
    \/ \E p \in Procs : ConcWrite(p)
    \/ ConcRead

SpecConc == InitConc /\ [][NextConc]_vars

----------------------------------------------------------------------------
(* The state ref: the storage backend's update as commits on a ref that    *)
(* advances by compare-and-swap.  commits holds the commit objects of the  *)
(* ref, HEAD.at is the ref's tip, tree is the tip's tree, and events lists *)
(* the calls that returned.                                                *)

MaxCalls == 4

\* The number of attempts one update call makes before ErrConflict.
MaxAttempts == 3

CasRequests ==
    { [sets |-> << [key |-> branchJSON("a"),
                    val |-> branchState(MainName, 1, "", NoChange)] >>,
       dels |-> <<>>],
      [sets |-> <<>>, dels |-> << branchJSON("a") >>] }

NoCasReq == [sets |-> <<>>, dels |-> <<>>]
NoCas == [req |-> NoCasReq, observed |-> NoHash, newTree |-> EmptyTree,
          attempts |-> 0]

StateCommit(parent, t, req) == [parent |-> parent, tree |-> t, req |-> req]

\* The commits reachable from c through parents.
RECURSIVE History(_, _)
History(cs, c) ==
    IF c = NoHash THEN {} ELSE {c} \cup History(cs, cs[c].parent)

CasSucceedsAlways(tip, observed) == TRUE

\* The compare of the compare-and-swap: the ref is where the writer saw it.
CasSucceeds(tip, observed) == tip = observed

InitCas ==
    /\ tree = [EmptyTree EXCEPT ![_repoJSON] = repoInfo(MainName)]
    /\ commits = << StateCommit(NoHash, tree, NoCasReq) >>
    /\ HEAD = [branch |-> "", at |-> 1]
    /\ localRef = [n \in AllNames |-> NoHash]
    /\ staged = FALSE
    /\ trunk = MainName
    /\ last = NoLast
    /\ remoteRef = Refs("a", NoHash)
    /\ trackingRef = Refs("a", NoHash)
    /\ forkPoint = [n \in BranchNames |-> 1]
    /\ changes = [id \in ChangeIDs |-> NoCR]
    /\ pc = [p \in Procs |-> "idle"]
    /\ cmd = NoCmd
    /\ loc = [p \in Procs |-> NoCas]
    /\ ret = [p \in Procs |-> ""]
    /\ events = <<>>

CasFrame == UNCHANGED <<trunk, last, gitVars, changes, cmd, localRef, staged>>

\* update(sets, deletes, message) is called.
CasStart(p) ==
    /\ pc[p] = "idle"
    /\ Len(events) + Cardinality({ q \in Procs : pc[q] # "idle" }) < MaxCalls
    /\ \E req \in CasRequests :
        loc' = [loc EXCEPT ![p] = [NoCas EXCEPT !.req = req]]
    /\ pc' = [pc EXCEPT ![p] = "read"]
    /\ ret' = [ret EXCEPT ![p] = ""]
    /\ UNCHANGED <<tree, commits, HEAD, events>>
    /\ CasFrame

\* One attempt begins: read the tip and build the new tree from its tree.
CasRead(p) ==
    /\ pc[p] = "read"
    /\ loc' = [loc EXCEPT
                ![p].observed = HEAD.at,
                ![p].newTree = BackendUpdate(commits[HEAD.at].tree,
                                             loc[p].req.sets, loc[p].req.dels)]
    /\ pc' = [pc EXCEPT ![p] = "cas"]
    /\ UNCHANGED <<tree, commits, HEAD, ret, events>>
    /\ CasFrame

\* The attempt ends: write the commit on the observed tip and swap the ref
\* to it if the ref is still there; otherwise retry, or give up with
\* ErrConflict after MaxAttempts attempts.
CasSwap(p) ==
    /\ pc[p] = "cas"
    /\ IF CasSucceeds(HEAD.at, loc[p].observed)
       THEN /\ commits' = Append(commits, StateCommit(loc[p].observed,
                                        loc[p].newTree, loc[p].req))
            /\ HEAD' = [HEAD EXCEPT !.at = Len(commits')]
            /\ tree' = loc[p].newTree
            /\ loc' = [loc EXCEPT ![p].attempts = @ + 1]
            /\ pc' = [pc EXCEPT ![p] = "done"]
            /\ events' = Append(events, [by |-> p, commit |-> Len(commits'),
                                         err |-> ""])
            /\ UNCHANGED ret
       ELSE /\ loc' = [loc EXCEPT ![p].attempts = @ + 1]
            /\ IF loc[p].attempts + 1 >= MaxAttempts
               THEN /\ pc' = [pc EXCEPT ![p] = "done"]
                    /\ ret' = [ret EXCEPT ![p] = "ErrConflict"]
                    /\ events' = Append(events, [by |-> p, commit |-> NoHash,
                                                 err |-> "ErrConflict"])
               ELSE /\ pc' = [pc EXCEPT ![p] = "read"]
                    /\ UNCHANGED <<ret, events>>
            /\ UNCHANGED <<tree, commits, HEAD>>
    /\ CasFrame

\* The call has returned; the process may call update again.
CasReturn(p) ==
    /\ pc[p] = "done"
    /\ pc' = [pc EXCEPT ![p] = "idle"]
    /\ loc' = [loc EXCEPT ![p] = NoCas]
    /\ UNCHANGED <<tree, commits, HEAD, ret, events>>
    /\ CasFrame

NextCas ==
    \/ \E p \in Procs : CasStart(p)
    \/ \E p \in Procs : CasRead(p)
    \/ \E p \in Procs : CasSwap(p)
    \/ \E p \in Procs : CasReturn(p)

SpecCas == InitCas /\ [][NextCas]_vars

\* Each process keeps running its call: an attempt that can go on does.
SpecCasFair ==
    SpecCas /\ \A p \in Procs : WF_vars(CasRead(p) \/ CasSwap(p))

----------------------------------------------------------------------------
(* The change-template prefetch of preparePublish: the goroutine of lines  *)
(* 521-534 (pc.prod) and preparePublish itself (pc.cons), joined by        *)
(* changeTemplatesCh.  Templates are counted, not named.                   *)

MaxTemplates == 2

\* make(chan []*forge.ChangeTemplate, 1)
ChanCap == 1

PrepCmds ==
    [op : {"prepare"}, title : BOOLEAN, body : BOOLEAN, fill : BOOLEAN,
     prompt : BOOLEAN, draftNil : BOOLEAN]

\* svc.ListChangeTemplates under the one-second context: templates, an
\* error, or the deadline, each possibly with templates returned.
FetchOutcomes ==
    [n : 0..MaxTemplates, err : {"", "error", "context deadline exceeded"}]

NoPrep == [ch |-> <<>>, closed |-> FALSE, fetched |-> [n |-> 0, err |-> ""],
           sent |-> 0, sentVal |-> 0, received |-> 0, tmpls |-> 0]

DeliveredAsFetched(f) == f.n

\* Lines 528-531: on an error the templates are dropped.
Delivered(f) == IF f.err # "" THEN 0 ELSE f.n

CanSendUnbuffered(ch, receiving) == receiving

\* A send on the buffered channel goes through when the buffer has room.
CanSend(ch, receiving) == Len(ch) < ChanCap

\* Lines 573-601: the fields the form would show.
HasFields(c) ==
    \/ ~c.title
    \/ ~c.body /\ ~c.fill
    \/ c.prompt /\ c.draftNil

InitPrep ==
    /\ cmd \in PrepCmds
    /\ pc = [prod |-> "fetch", cons |-> "msgs"]
    /\ loc = NoPrep
    /\ ret = Nil
    /\ events = <<>>
    /\ tree = [EmptyTree EXCEPT ![_repoJSON] = repoInfo(MainName)]
    /\ trunk = MainName
    /\ last = NoLast
    /\ remoteRef = Refs("a", NoHash)
    /\ trackingRef = Refs("a", NoHash)
    /\ forkPoint = [n \in BranchNames |-> 1]
    /\ changes = [id \in ChangeIDs |-> NoCR]
    /\ NoRepo

PrepFrame == UNCHANGED <<storeVars, gitVars, changes, cmd, events, repoVars>>

\* Lines 524-531: the fetch returns.
TmplFetch ==
    /\ pc.prod = "fetch"
    /\ \E f \in FetchOutcomes : loc' = [loc EXCEPT !.fetched = f]
    /\ pc' = [pc EXCEPT !.prod = "send"]
    /\ UNCHANGED ret
    /\ PrepFrame

\* Line 533: changeTemplatesCh <- templates.
TmplSend ==
    /\ pc.prod = "send"
    /\ CanSend(loc.ch, pc.cons = "recv")
    /\ loc' = [loc EXCEPT !.ch = Append(@, Delivered(loc.fetched)),
                          !.sent = @ + 1,
                          !.sentVal = Delivered(loc.fetched)]
    /\ pc' = [pc EXCEPT !.prod = "close"]
    /\ UNCHANGED ret
    /\ PrepFrame

\* Line 522: the deferred close; the goroutine ends.
TmplClose ==
    /\ pc.prod = "close"
    /\ loc' = [loc EXCEPT !.closed = TRUE]
    /\ pc' = [pc EXCEPT !.prod = "end"]
    /\ UNCHANGED ret
    /\ PrepFrame

\* Lines 536-542: the commit messages.
PrepMsgs ==
    /\ pc.cons = "msgs"
    /\ \/ \E e \in {"list commits", "no commits to submit"} :
            /\ ret' = Err(e, "")
            /\ pc' = [pc EXCEPT !.cons = "done"]
       \/ /\ pc' = [pc EXCEPT !.cons = "fields"]
          /\ UNCHANGED ret
    /\ UNCHANGED loc
    /\ PrepFrame

\* Lines 571-607: the fields are collected; --fill receives at once;
\* fields without a prompt are an error.
PrepFields ==
    /\ pc.cons = "fields"
    /\ IF ~cmd.body /\ cmd.fill
       THEN pc' = [pc EXCEPT !.cons = "recv"] /\ UNCHANGED ret
       ELSE IF HasFields(cmd) /\ ~cmd.fill
       THEN IF ~cmd.prompt
            THEN /\ ret' = Err("prompt for commit information", "")
                 /\ pc' = [pc EXCEPT !.cons = "done"]
            ELSE pc' = [pc EXCEPT !.cons = "form"] /\ UNCHANGED ret
       ELSE pc' = [pc EXCEPT !.cons = "done"] /\ UNCHANGED ret
    /\ UNCHANGED loc
    /\ PrepFrame

\* Lines 609-641: the recovery prompt and the form run, up to the template
\* field when there is one; either may fail before it.
PrepForm ==
    /\ pc.cons = "form"
    /\ \/ \E e \in {"prompt for recovery", "prompt form"} :
            /\ ret' = Err(e, "")
            /\ pc' = [pc EXCEPT !.cons = "done"]
       \/ /\ pc' = [pc EXCEPT !.cons =
                        IF ~cmd.body /\ ~cmd.fill THEN "recv" ELSE "done"]
          /\ UNCHANGED ret
    /\ UNCHANGED loc
    /\ PrepFrame

\* Lines 584 and 451: <-changeTemplatesCh, a buffered value or, from the
\* closed and empty channel, the zero value; then the rest of the form.
PrepRecv ==
    /\ pc.cons = "recv"
    /\ loc.ch # <<>> \/ loc.closed
    /\ loc' = [loc EXCEPT
                !.ch = IF loc.ch # <<>> THEN Tail(loc.ch) ELSE <<>>,
                !.received = @ + 1,
                !.tmpls = IF loc.ch # <<>> THEN Head(loc.ch) ELSE 0]
    /\ pc' = [pc EXCEPT !.cons = "done"]
    /\ \/ UNCHANGED ret
       \/ ~cmd.fill /\ ret' = Err("prompt form", "")
    /\ PrepFrame

NextPrep ==
    \/ TmplFetch
    \/ TmplSend
    \/ TmplClose
    \/ PrepMsgs
    \/ PrepFields
    \/ PrepForm
    \/ PrepRecv

SpecPrep == InitPrep /\ [][NextPrep]_vars

\* The goroutine is scheduled, ListChangeTemplates returns within its
\* one-second context, and a receive that can proceed does.
SpecPrepFair ==
    /\ SpecPrep
    /\ WF_vars(TmplFetch) /\ WF_vars(TmplSend) /\ WF_vars(TmplClose)
    /\ WF_vars(PrepRecv)

----------------------------------------------------------------------------
(* Properties.                                                             *)

Called(op) == \E i \in 1..Len(events) : events[i].op = op
CalledOk(op) == \E i \in 1..Len(events) : events[i] = Ev(op, TRUE)
Running == pc \notin {"idle", "off"}
Record == Lookup(tree, cmd.branch)

\* C1: a dry-run invocation makes no push, no store update and no
\* SubmitChange or EditChange call, whatever state it starts in.
C1_DryRunNoSideEffects ==
    cmd.dryRun =>
        \A i \in 1..Len(events) :
            events[i].op \notin {"git.Push", "store.UpdateBranch",
                                 "forge.SubmitChange", "forge.EditChange"}

\* C2: SubmitChange is called only after a successful push of the same
\* invocation and never after a failed one; when the invocation that
\* called SubmitChange returns, its last side effect is the deferred
\* store update, which leaves upstream_branch = upstream_name in the record.
C2_PublishOrdering ==
    /\ \A i \in 1..Len(events) :
            events[i].op = "forge.SubmitChange" =>
                /\ \E j \in 1..(i - 1) : events[j] = Ev("git.Push", TRUE)
                /\ \A j \in 1..Len(events) : events[j] # Ev("git.Push", FALSE)
    /\ (pc = "done" /\ Called("forge.SubmitChange")) =>
            /\ events[Len(events)].op = "store.UpdateBranch"
            /\ events[Len(events)].ok => Record.upstream = loc.upstreamBranch

C2_Witness ==
    /\ pc = "done"
    /\ CalledOk("forge.SubmitChange")
    /\ events[Len(events)] = Ev("store.UpdateBranch", TRUE)
    /\ loc.upstream = ""
    /\ Record.upstream = cmd.branch

\* C3: without --force, when the remote ref is not at the hash submit
\* read for the lease at the moment of the push, the push fails, run()
\* returns the push error, and no SubmitChange or EditChange call follows.
C3_LeaseProtectsPush ==
    ( /\ ~cmd.force
      /\ Called("git.Push")
      /\ loc.observed # NoHash
      /\ loc.atPush # NoHash
      /\ loc.atPush # loc.observed )
    =>  /\ pc = "done"
        /\ ret = Err("push branch", "")
        /\ events[Len(events)] = Ev("git.Push", FALSE)
        /\ ~Called("forge.SubmitChange")
        /\ ~Called("forge.EditChange")

C3_Witness ==
    /\ ~cmd.force
    /\ loc.path = "create"
    /\ loc.observed # NoHash
    /\ loc.atPush # NoHash
    /\ loc.atPush # loc.observed
    /\ ret = Err("push branch", "")

\* C4: on the create path, once the push has succeeded, every return of
\* run() is preceded by the deferred store update as its last side effect;
\* when that update is committed the record has upstream_branch =
\* upstream_name, and a change exactly when one was obtained; the return
\* value is the one of the forge steps, whether or not the update failed.
C4_DeferredWriteOnEveryExit ==
    (pc = "done" /\ loc.path = "create" /\ CalledOk("git.Push")) =>
        /\ events[Len(events)].op = "store.UpdateBranch"
        /\ events[Len(events)].ok =>
                /\ Record.upstream = loc.upstreamBranch
                /\ Record.change =
                        IF loc.upsertChange # Keep THEN loc.upsertChange ELSE NoChange
        /\ loc.upsertChange # Keep <=> (CalledOk("forge.SubmitChange") /\ ret = Nil)
        /\ ret.err \in {"", "create change", "get change metadata", "marshal change ID"}
        /\ ret.err = "create change" <=>
                (\E i \in 1..Len(events) : events[i] = Ev("forge.SubmitChange", FALSE))
        /\ ~Called("forge.SubmitChange") => ret = Nil

C4_Witness ==
    /\ pc = "done"
    /\ loc.path = "create"
    /\ ret.err = "create change"
    /\ events[Len(events)] = Ev("store.UpdateBranch", TRUE)
    /\ loc.upstream = ""
    /\ Record.upstream = cmd.branch
    /\ Record.change = NoChange

\* C5: no branch ever has two open changes created by its own submits:
\* a change whose reference was not persisted is adopted by the next
\* invocation instead of being created again.
C5_NoSecondChange ==
    \A n \in BranchNames :
        Cardinality({ id \in ChangeIDs : changes[id].exists /\ changes[id].by = n }) <= 1

\* C6: a successful non-dry-run submit that found no change in the record
\* and exactly one open change for upstream_name leaves that change in the
\* record, with base, base hash and upstream branch as they were.
C6_AdoptionHealsState ==
    ( /\ pc = "done" /\ ret = Nil /\ ~cmd.dryRun
      /\ loc.change = NoChange /\ loc.path = "update" )
    =>  /\ OpenChangesOf(loc.upstreamBranch) = {Record.change}
        /\ Record.base = loc.base
        /\ Record.hash = loc.hash
        /\ Record.upstream = loc.upstream

C6_Witness ==
    /\ pc = "done" /\ ret = Nil /\ ~cmd.dryRun
    /\ loc.change = NoChange /\ loc.path = "update"
    /\ Record.change = 1
    /\ Record.hash = 1
    /\ Record.upstream = "b"

\* C7: on the update path EditChange is called only when the base differs
\* or the draft flag asks for another draft status; a change whose head
\* alone is out of date gets a push and no EditChange call.
C7_EditOnlyForBaseOrDraft ==
    \A i \in 1..Len(events) :
        events[i].op = "forge.EditChange" =>
            loc.updates \cap {"set base", "set draft"} # {}

\* C8: submit of the trunk, of a branch without a record, or (without
\* --force) of a branch that is not restacked returns an error with no
\* side effect; any other submit, one with --force of a branch that is not
\* restacked included, passes these checks.
C8_Preconditions ==
    LET refused ==
            \/ cmd.branch = Trunk
            \/ Record.err # ""
            \/ ~cmd.force /\ forkPoint[cmd.branch] # Record.hash
    IN  Running =>
            /\ refused => (pc = "done" /\ ret.err # "" /\ events = <<>>)
            /\ ~refused => ret.err \notin {"cannot submit trunk", "lookup branch",
                                            "refusing to submit outdated branch"}

C8_Witness ==
    /\ pc = "done"
    /\ cmd.branch = "a"
    /\ ~cmd.force
    /\ forkPoint["a"] # Record.hash
    /\ ret = Err("refusing to submit outdated branch", "")

\* C9: with no change in the record and two or more open changes for
\* upstream_name, submit ends with an error naming the branch and without
\* side effects; a change is adopted only when it is the only open one.
C9_MultipleOpenChanges ==
    (Running /\ loc.upstreamBranch # "" /\ loc.change = NoChange) =>
        /\ Cardinality(OpenChangesOf(loc.upstreamBranch)) >= 2 =>
                /\ pc \in {"find", "done"}
                /\ events = <<>>
                /\ pc = "done" =>
                        ret \in {Err("multiple open change requests", cmd.branch),
                                 Err("list changes", "")}
        /\ loc.existing # NoChange => OpenChangesOf(loc.upstreamBranch) = {loc.existing}

C9_Witness ==
    /\ pc = "done"
    /\ loc.change = NoChange
    /\ Cardinality(OpenChangesOf(loc.upstreamBranch)) >= 2
    /\ ret = Err("multiple open change requests", cmd.branch)

\* C10: a Store.Update whose request holds an upsert named after the trunk
\* fails and leaves the store as it was, and no store state has a branch
\* record named after the trunk.
C10_TrunkUpsertRejected ==
    /\ [][ (last'.op = "update" /\ last'.trunkUpsert)
                => (last'.err # "" /\ tree' = tree) ]_vars
    /\ [](tree[branchJSON(Trunk)].kind # "branch")

C10_Witness ==
    /\ last.op = "update"
    /\ last.trunkUpsert
    /\ last.n >= 2
    /\ last.err = "trunk branch is not managed by gs"
    /\ tree[branchJSON("a")].kind = "branch"

\* The base chain of `name` reaches the trunk within n steps.
RECURSIVE ReachesTrunk(_, _, _)
ReachesTrunk(t, name, n) ==
    IF name = Trunk THEN TRUE
    ELSE IF n = 0 \/ Lookup(t, name).err # "" THEN FALSE
    ELSE ReachesTrunk(t, Lookup(t, name).base, n - 1)

\* C11: in every store state the base chain of every record ends at the
\* trunk: no record is its own base, no chain runs in a cycle, none ends
\* at a name without a record.
C11_AcyclicBaseChain ==
    \A n \in List(tree) : ReachesTrunk(tree, n, Cardinality(AllNames))

\* C16: the repo key changes only in an InitStore call with Force: no
\* Store.Update changes or removes it, and InitStore without Force on an
\* initialized store fails and leaves the store as it was.
C16_RepoInfoImmutable ==
    /\ [][ last'.op = "update" => tree'[_repoJSON] = tree[_repoJSON] ]_vars
    /\ [][ (last'.op = "init" /\ ~last'.force /\ tree[_repoJSON].kind = "repo")
                => (last'.err # "" /\ tree' = tree) ]_vars

\* The upserts of a request that are the only one for their branch.
SoleUpserts(req) ==
    { i \in 1..Len(req.upserts) :
        \A j \in 1..Len(req.upserts) :
            req.upserts[j].name = req.upserts[i].name => j = i }

C15_NoLostUpdate ==
    ( /\ \A p \in Procs : pc[p] = "done" /\ loc[p].err = ""
      /\ { loc[p].req : p \in Procs } = {BaseOnly, ChangeOnly} )
    =>  /\ Lookup(tree, "a").base = "b"
        /\ Lookup(tree, "a").change = 1

\* C12: whatever create and fold commands have run on a fresh store, the
\* base of every record is the trunk or a branch with a record, and the
\* base chain of every record ends at the trunk.
C12_BaseIsTrunkOrTracked ==
    \A n \in List(tree) :
        /\ Lookup(tree, n).base = Trunk \/ Lookup(tree, n).base \in List(tree)
        /\ ReachesTrunk(tree, n, Cardinality(AllNames))

CreateDone == pc = "done" /\ cmd.op = "create" /\ ret = Nil

\* C17: a successful create in the default mode leaves branch new_name
\* at one new commit whose parent is H, the tip of C, empty exactly when
\* the index had no diff; HEAD on new_name; the record new_name =
\* {base: C, base_hash: H}; and every other record as it was.
C17_CreateAbove ==
    (CreateDone /\ ~cmd.below /\ ~cmd.insert) =>
        /\ Len(commits) = loc.preCommits + 1
        /\ localRef[cmd.name] = Len(commits)
        /\ commits[Len(commits)].parent = loc.currentHash
        /\ loc.currentHash = loc.preRefs[loc.current]
        /\ commits[Len(commits)].empty <=> ~loc.diff
        /\ HEAD = OnBranch(localRef, cmd.name)
        /\ Lookup(tree, cmd.name).err = ""
        /\ Lookup(tree, cmd.name).base = loc.current
        /\ Lookup(tree, cmd.name).hash = loc.currentHash
        /\ \A n \in AllNames \ {cmd.name} :
                tree[branchJSON(n)] = loc.pre[branchJSON(n)]

C17_Witness ==
    /\ CreateDone /\ ~cmd.below /\ ~cmd.insert
    /\ cmd.name = "b"
    /\ loc.current = "a"
    /\ Lookup(loc.pre, "a").base = MainName
    /\ Lookup(tree, "b").base = "a"
    /\ Lookup(tree, "b").hash = 2
    /\ commits[localRef["b"]].empty

\* C18: create --below on the trunk or on a branch without a record is
\* refused before anything is done; past that check C has a record; and on
\* success new_name has the base and base hash C had, C's base is
\* new_name, the store was updated once, and the restack came after it.
C18_CreateBelow ==
    (pc # "idle" /\ cmd.op = "create" /\ cmd.below) =>
        /\ ret.err \in {"--below cannot be used from", "branch not tracked"} =>
                /\ events = <<>>
                /\ HEAD.branch = Trunk \/ Lookup(tree, HEAD.branch).err # ""
        /\ events # <<>> =>
                /\ loc.current # Trunk
                /\ Lookup(loc.pre, loc.current).err = ""
        /\ CreateDone =>
                /\ Lookup(tree, cmd.name).err = ""
                /\ Lookup(tree, cmd.name).base = Lookup(loc.pre, loc.current).base
                /\ Lookup(tree, cmd.name).hash = Lookup(loc.pre, loc.current).hash
                /\ Lookup(tree, loc.current).base = cmd.name
                /\ Cardinality({ i \in 1..Len(events) : events[i].op = "store.Update" }) = 1
                /\ events[Len(events) - 1] = EvArg("store.Update", "", TRUE)
                /\ events[Len(events)] = EvArg("upstackRestack", "", TRUE)

C18_Witness ==
    /\ CreateDone /\ cmd.below
    /\ cmd.name = "b"
    /\ loc.current = "a"
    /\ Lookup(tree, "b").base = MainName
    /\ Lookup(tree, "b").hash = 1
    /\ Lookup(tree, "a").base = "b"
    /\ Lookup(tree, "a").hash = localRef["b"]

\* The error Run returns for a failed step.
StepError(op) ==
    IF op = "git.Commit" THEN "commit"
    ELSE IF op = "git.CreateBranch" THEN "create branch"
    ELSE IF op = "git.Checkout" THEN "checkout branch"
    ELSE IF op = "store.Update" THEN "update state"
    ELSE "restack"

\* C19: when create returns an error after HEAD was detached, the last
\* thing it did is a checkout of the original branch, right after the step
\* that failed, and the error it returns is that step's error.
C19_RestoreOnError ==
    ( /\ pc = "done" /\ cmd.op = "create" /\ ret.err # ""
      /\ events # <<>> /\ events[1].ok )
    =>  /\ Len(events) >= 3
        /\ events[Len(events)].op = "git.Checkout"
        /\ events[Len(events)].arg = loc.current
        /\ ~events[Len(events) - 1].ok
        /\ ret.err = StepError(events[Len(events) - 1].op)
        /\ events[Len(events)].ok => HEAD = OnBranch(localRef, loc.current)

C19_Witness ==
    /\ pc = "done" /\ cmd.op = "create"
    /\ ret = Err("restack", "")
    /\ events[Len(events)] = EvArg("git.Checkout", "a", TRUE)
    /\ HEAD = OnBranch(localRef, "a")
    /\ Lookup(tree, "a").base = "b"

\* C20: after a successful fold of B with base P: P is at the tip B had,
\* B has no record and is not listed, every branch that was on B is on P
\* with P's new tip as base hash, no record has base B, the git branch B
\* is gone, and HEAD is on P.
C20_Fold ==
    (pc = "done" /\ cmd.op = "fold" /\ ret = Nil) =>
        /\ localRef[loc.baseName] = loc.preRefs[cmd.branch]
        /\ Lookup(tree, cmd.branch).err = "ErrNotExist"
        /\ cmd.branch \notin List(tree)
        /\ \A x \in List(loc.pre) \ {cmd.branch} :
                Lookup(loc.pre, x).base = cmd.branch =>
                    /\ Lookup(tree, x).base = loc.baseName
                    /\ Lookup(tree, x).hash = localRef[loc.baseName]
        /\ \A x \in List(tree) \ {cmd.branch} : Lookup(tree, x).base # cmd.branch
        /\ localRef[cmd.branch] = NoHash
        /\ HEAD = OnBranch(localRef, loc.baseName)

\* C21: a fold of a branch without a record, or of one that needs a
\* restack, returns an error at once and leaves the branches, HEAD and the
\* store as they were; a fold that has done anything passed both checks.
C21_FoldRefused ==
    /\ [][ (pc = "idle" /\ pc' # "idle" /\ cmd'.op = "fold" /\ cmd'.branch # "")
            => ( ( \/ Lookup(tree, cmd'.branch).err # ""
                   \/ forkPoint[cmd'.branch] # Lookup(tree, cmd'.branch).hash )
                 => ( /\ pc' = "done" /\ ret'.err # "" /\ events' = <<>>
                      /\ UNCHANGED <<tree, localRef, HEAD, commits>> ) ) ]_vars
    /\ []( (pc # "idle" /\ cmd.op = "fold" /\ events # <<>>)
            => ( /\ Lookup(loc.pre, cmd.branch).err = ""
                 /\ ForkPoints(loc.pre, loc.preRefs, commits)[cmd.branch]
                        = Lookup(loc.pre, cmd.branch).hash ) )

C21_Witness ==
    /\ pc = "done" /\ cmd.op = "fold"
    /\ cmd.branch = "b"
    /\ Lookup(tree, "b").base = "a"
    /\ localRef["b"] # NoHash /\ localRef["a"] # NoHash
    /\ ret = Err("needs to be restacked before it can be folded", "b")
    /\ events = <<>>

PreparedKey == preparedJSON(cmd.branch)

SubmittedThenCleared ==
    \E i \in 1..(Len(events) - 1) :
        /\ events[i] = Ev("forge.SubmitChange", TRUE)
        /\ events[i + 1] = Ev("store.ClearPreparedBranch", TRUE)

\* C22 as stated: whenever the push is about to be attempted on the
\* publish path a PreparedBranch is in the store, and none is left once
\* SubmitChange has succeeded.
C22_PreparedAsStated ==
    /\ (pc = "push" /\ loc.prepared) => tree[PreparedKey] = PreparedVal
    /\ (pc \in {"deferred", "done"} /\ CalledOk("forge.SubmitChange"))
            => tree[PreparedKey] = Absent

\* C22, amended: on the publish path the save is attempted immediately
\* before the push; a save that succeeded leaves the PreparedBranch in
\* the store until SubmitChange succeeds, through a failed push or a
\* failed SubmitChange; the clear is attempted right after each
\* successful SubmitChange and removes it when it succeeds; and the
\* prepared key is written only by a save, by that clear, or by the
\* clear of a declined recovery.  A failed save or clear is logged and
\* leaves the store as it was.
C22_PreparedLifecycle ==
    /\ []( (pc = "push" /\ loc.prepared)
            => /\ events[Len(events)].op = "store.SavePreparedBranch"
               /\ events[Len(events)].ok => tree[PreparedKey] = PreparedVal )
    /\ []( ( /\ pc \in {"publish", "deferred", "done"}
             /\ CalledOk("store.SavePreparedBranch")
             /\ ~CalledOk("forge.SubmitChange") )
            => tree[PreparedKey] = PreparedVal )
    /\ []( \A i \in 1..Len(events) :
                events[i] = Ev("forge.SubmitChange", TRUE)
                    => /\ i < Len(events)
                       /\ events[i + 1].op = "store.ClearPreparedBranch" )
    /\ []( SubmittedThenCleared => tree[PreparedKey] = Absent )
    /\ [][ \A n \in AllNames :
              tree'[preparedJSON(n)] # tree[preparedJSON(n)]
                => /\ n = cmd.branch
                   /\ \/ /\ pc = "create"
                         /\ \/ events'[Len(events')]
                                    = Ev("store.SavePreparedBranch", TRUE)
                            \/ /\ Len(events') > Len(events)
                               /\ events'[Len(events) + 1]
                                    = Ev("store.ClearPreparedBranch", TRUE)
                      \/ /\ pc = "publish"
                         /\ tree'[preparedJSON(n)] = Absent
                         /\ CalledOk("forge.SubmitChange")' ]_vars

\* A run whose SubmitChange failed after a successful push, with the
\* PreparedBranch it saved still in the store.
C22_Witness ==
    /\ pc = "done"
    /\ ret = Err("create change", "")
    /\ CalledOk("store.SavePreparedBranch")
    /\ CalledOk("git.Push")
    /\ tree[PreparedKey] = PreparedVal

UpToDate(id) ==
    /\ changes[id].exists
    /\ HeadHash(id) = loc.commitHash
    /\ changes[id].base = Record.base
    /\ cmd.draft # "nil" => changes[id].draft = (cmd.draft = "true")

C26_TemplatePrefetch ==
    /\ []( /\ Len(loc.ch) <= ChanCap
           /\ loc.sent <= 1
           /\ loc.received <= 1
           /\ loc.closed => loc.sent = 1
           /\ loc.received = 1 => loc.sent = 1 /\ loc.tmpls = loc.sentVal
           /\ (loc.sent = 1 /\ loc.fetched.err # "") => loc.sentVal = 0
           /\ (loc.received = 1 /\ loc.fetched.err # "") => loc.tmpls = 0 )
    /\ <>(pc.prod = "end")
    /\ (pc.cons = "recv") ~> (pc.cons = "done")

\* The fetch timed out with templates in hand, and the form's receive got
\* none.
C26_Witness ==
    /\ pc.prod = "end" /\ pc.cons = "done"
    /\ ~cmd.fill /\ ~cmd.body /\ cmd.prompt
    /\ loc.fetched = [n |-> MaxTemplates, err |-> "context deadline exceeded"]
    /\ loc.received = 1
    /\ loc.tmpls = 0

\* C27: whenever SubmitChange is called, the head it is given is the
\* upstream name that was pushed to and that the search looks for, so a
\* change it created is among the open changes the search for that name
\* finds.
C27_HeadIsUpstream ==
    (pc # "idle" /\ Called("forge.SubmitChange")) =>
        /\ PublishHead = loc.upstreamBranch
        /\ CalledOk("forge.SubmitChange") =>
                \E id \in OpenChangesOf(loc.upstreamBranch) :
                    changes[id].by = cmd.branch

\* C28: an InitStore call with Force on an initialized store leaves, at
\* every point a reader or a crash can observe, either the store as it was
\* or the store holding only the new RepoInfo, and never a store that
\* OpenStore reports as uninitialized.
C28_ForceInitAtomic ==
    [][ ( /\ last'.op = "init" /\ last'.force
          /\ <<tree, last>>' # <<tree, last>>
          /\ OpenStore(tree) = "" )
        => /\ OpenStore(tree') = ""
           /\ \/ tree' = tree
              \/ tree' = [EmptyTree EXCEPT ![_repoJSON] = repoInfo(trunk')] ]_vars

\* C29: when create returns an error after it created the git branch,
\* that branch is gone again or has a store record; and when the error is
\* the store update's, the store is as it was before the command.
C29_CreateConsistentOnFailure ==
    ( /\ pc = "done" /\ cmd.op = "create" /\ ret.err # ""
      /\ \E i \in 1..Len(events) :
            events[i].op = "git.CreateBranch" /\ events[i].ok )
    =>  /\ \/ localRef[cmd.name] = NoHash
           \/ Lookup(tree, cmd.name).err = ""
        /\ ret.err = "update state" => tree = loc.pre

====
